---- MODULE Spec2Model ----
(***************************************************************************)
(* Model of the barcoded k-mer pair counter (bkc_filter): the per-read     *)
(* extractors, the per-CBC sort-and-gather, and the parallel driver        *)
(* count_kmer_pairs with its per-thread shard buffers and shard sinks.     *)
(***************************************************************************)
EXTENDS Integers, Sequences, FiniteSets, Bags, TLC

(***************************************************************************)
(* Run parameters (set from the command line by parse_args).               *)
(***************************************************************************)
leader_len == 2
follower_len == 1
gap_len == 1
no_splits == 2
no_threads == 2
max_count == 3
sample_id == 1
\* flush threshold of a per-thread shard buffer
max_records_in_buffer == 2

(***************************************************************************)
(* Bounds of the model.                                                    *)
(***************************************************************************)
\* CBCs in the read index (global_cbc_dict)
MaxCbcs == 2
\* reads in the whole read index
MaxIndexReads == 2
\* bases of all reads of the CBC given to the extractors (SpecExtract)
MaxBases == 6
\* bytes of heap behind a decoded read's terminator that a scan can reach
HeapSlack == 1
\* strings in the dictionary file given with -d (SpecMain)
MaxDictLines == 2
\* bytes of the read given to enumerate_kmer_pairs_from_read (SpecStream)
MaxReadLen == 7
\* bytes fed to one k-mer window (SpecWindow)
MaxFed == 6
\* pairs in the vector given to sort_and_gather_kmer_pairs_for_cbc (SpecGather)
MaxPairs == 4

\* the bytes reads are drawn from: an upper-case base, a lower-case base and
\* a byte that is no base
Bytes == {"A", "c", "N"}
\* the terminator strlen() stops at
NUL == "NUL"
\* accepted_anchors when no dictionary was given: the null shared_ptr
NoAnchors == [present |-> FALSE, anchors |-> {}]

total_len == leader_len + gap_len + follower_len

RECURSIVE Pow4(_)
Pow4(n) == IF n = 0 THEN 1 ELSE 4 * Pow4(n - 1)

(***************************************************************************)
(* Base decoding.                                                          *)
(***************************************************************************)
\* CBarcodedCounter::init: the 256-entry table, 4 for every byte that is no base
char2bits(c) ==
    CASE c \in {"A", "a"} -> 0
      [] c \in {"C", "c"} -> 1
      [] c \in {"G", "g"} -> 2
      [] c \in {"T", "t"} -> 3
      [] OTHER -> 4

\* dna_code (shared header): the same decoding, a value >= 4 for a non-base
dna_code(c) ==
    CASE c \in {"A", "a"} -> 0
      [] c \in {"C", "c"} -> 1
      [] c \in {"G", "g"} -> 2
      [] c \in {"T", "t"} -> 3
      [] OTHER -> 4

(***************************************************************************)
(* CKmer in direct mode: a rolling window of the last len valid bases.     *)
(***************************************************************************)
CKmer(len) == [data |-> 0, size |-> 0, len |-> len]

KmerInsert(k, symbol) ==
    [k EXCEPT !.data = ((k.data * 4) % Pow4(k.len)) + symbol,
              !.size = IF k.size < k.len THEN k.size + 1 ELSE k.len]

KmerReset(k) == [k EXCEPT !.data = 0, !.size = 0]

is_full(k) == k.size = k.len

kmer_data(k) == k.data

data_aligned_dir(k) == k.data

\* FeedSymbol with the Reset left out
FeedSymbolNoReset(k, symbol) == IF symbol < 4 THEN KmerInsert(k, symbol) ELSE k

\* the step every scan loop makes with one byte: insert a base, Reset otherwise
FeedSymbol(k, symbol) == IF symbol < 4 THEN KmerInsert(k, symbol) ELSE KmerReset(k)

(***************************************************************************)
(* Memory of a decoded read: the bases, the terminator, then HeapSlack     *)
(* bytes of whatever the heap holds there (fill), index from 0.  Reading   *)
(* past the terminator is undefined behaviour; fill is chosen              *)
(* nondeterministically by the actions, and nothing is a base further out. *)
(***************************************************************************)
strlen(bases) == Len(bases)

MemAt(bases, fill, k) ==
    IF k < Len(bases) THEN bases[k + 1]
    ELSE IF k = Len(bases) THEN NUL
    ELSE IF k <= Len(bases) + HeapSlack THEN fill
    ELSE NUL

(***************************************************************************)
(* The streaming extractors.                                               *)
(***************************************************************************)
\* the two pre-fill loops: feed bases[from .. to-1] to a window
RECURSIVE PrefillWindow(_, _, _, _)
PrefillWindow(k, bases, from, to) ==
    IF from >= to THEN k
    ELSE PrefillWindow(FeedSymbol(k, dna_code(bases[from + 1])), bases, from + 1, to)

\* StreamGate without the test of min_leader_count
StreamGateStrict(leader, min_leader_count, valid_leaders) ==
    kmer_data(leader) \in valid_leaders

\* the guard of the emplace_back in enumerate_kmer_pairs_from_read
StreamGate(leader, min_leader_count, valid_leaders) ==
    min_leader_count <= 1 \/ kmer_data(leader) \in valid_leaders

\* main loop of enumerate_kmer_pairs_from_read from index i on; an entry
\* records the pair and (history) the position its leader starts at
RECURSIVE PairScan(_, _, _, _, _, _, _)
PairScan(bases, i, leader, follower, mlc, vl, out) ==
    IF i >= strlen(bases) THEN out
    ELSE LET f == FeedSymbol(follower, dna_code(bases[i + 1]))
             l == FeedSymbol(leader, dna_code(bases[(i - follower_len - gap_len) + 1]))
             hit == is_full(l) /\ is_full(f) /\ StreamGate(l, mlc, vl)
             e == [leader |-> data_aligned_dir(l), follower |-> data_aligned_dir(f),
                   pos |-> i - (total_len - 1)]
         IN PairScan(bases, i + 1, l, f, mlc, vl, IF hit THEN Append(out, e) ELSE out)

enumerate_kmer_pairs_from_read(bases, mlc, vl) ==
    LET follower_start_pos == leader_len + gap_len
        leader == PrefillWindow(CKmer(leader_len), bases, 0, leader_len - 1)
        follower == PrefillWindow(CKmer(follower_len), bases, follower_start_pos,
                                  follower_start_pos + follower_len - 1)
    IN IF total_len > strlen(bases) THEN << >>
       ELSE PairScan(bases, follower_start_pos + follower_len - 1, leader, follower,
                     mlc, vl, << >>)

\* main loop of enumerate_kmer_leaders_from_read
RECURSIVE LeaderScan(_, _, _, _, _)
LeaderScan(bases, i, leader, follower, out) ==
    IF i >= strlen(bases) THEN out
    ELSE LET f == FeedSymbol(follower, dna_code(bases[i + 1]))
             l == FeedSymbol(leader, dna_code(bases[(i - follower_len - gap_len) + 1]))
             hit == is_full(l) /\ is_full(f)
         IN LeaderScan(bases, i + 1, l, f,
                       IF hit THEN Append(out, data_aligned_dir(l)) ELSE out)

enumerate_kmer_leaders_from_read(bases) ==
    LET follower_start_pos == leader_len + gap_len
        leader == PrefillWindow(CKmer(leader_len), bases, 0, leader_len - 1)
        follower == PrefillWindow(CKmer(follower_len), bases, follower_start_pos,
                                  follower_start_pos + follower_len - 1)
    IN IF total_len > strlen(bases) THEN << >>
       ELSE LeaderScan(bases, follower_start_pos + follower_len - 1, leader, follower, << >>)

\* enumerate_kmer_leaders_for_cbc: the leaders of the CBC's reads, in read order
RECURSIVE enumerate_kmer_leaders_for_cbc(_)
enumerate_kmer_leaders_for_cbc(reads) ==
    IF reads = << >> THEN << >>
    ELSE enumerate_kmer_leaders_from_read(Head(reads))
         \o enumerate_kmer_leaders_for_cbc(Tail(reads))

\* an entry of enumerate_kmer_pairs_from_read tagged with (history) its read
TagRead(entries, r) ==
    [n \in 1..Len(entries) |->
        [leader |-> entries[n].leader, follower |-> entries[n].follower,
         read |-> r, pos |-> entries[n].pos]]

\* enumerate_kmer_pairs_for_cbc: reads r .. of the CBC, in read order
RECURSIVE PairsForCbcFrom(_, _, _, _)
PairsForCbcFrom(reads, r, mlc, vl) ==
    IF r > Len(reads) THEN << >>
    ELSE TagRead(enumerate_kmer_pairs_from_read(reads[r], mlc, vl), r)
         \o PairsForCbcFrom(reads, r + 1, mlc, vl)

enumerate_kmer_pairs_for_cbc(reads, mlc, vl) == PairsForCbcFrom(reads, 1, mlc, vl)

(***************************************************************************)
(* The accepted-anchor dictionary.                                         *)
(***************************************************************************)
\* AnchorOfLine with the bases laid out the other way round: the last
\* character of the line most significant
RECURSIVE AnchorOfLineReversed(_, _, _)
AnchorOfLineReversed(s, n, anchor) ==
    IF n > Len(s) THEN [ok |-> TRUE, anchor |-> anchor]
    ELSE LET x == char2bits(s[n])
         IN IF x > 3 THEN [ok |-> FALSE, anchor |-> anchor]
            ELSE AnchorOfLineReversed(s, n + 1, anchor + x * Pow4(n - 1))

\* the inner loop of prepare_anchor_dict over the characters of one line:
\* anchor <<= 2; anchor += x, or failure at a character that is no base
RECURSIVE AnchorOfLine(_, _, _)
AnchorOfLine(s, n, anchor) ==
    IF n > Len(s) THEN [ok |-> TRUE, anchor |-> anchor]
    ELSE LET x == char2bits(s[n])
         IN IF x > 3 THEN [ok |-> FALSE, anchor |-> anchor]
            ELSE AnchorOfLine(s, n + 1, anchor * 4 + x)

\* the outer loop of prepare_anchor_dict from line n on
RECURSIVE AnchorsOfLines(_, _, _)
AnchorsOfLines(vec, n, anchors) ==
    IF n > Len(vec) THEN [ok |-> TRUE, anchors |-> anchors]
    ELSE IF Len(vec[n]) # leader_len THEN [ok |-> FALSE, anchors |-> anchors]
    ELSE LET a == AnchorOfLine(vec[n], 1, 0)
         IN IF ~a.ok THEN [ok |-> FALSE, anchors |-> anchors]
            ELSE AnchorsOfLines(vec, n + 1, Append(anchors, a.anchor))

\* AcceptedAnchors built from a vector of encodings: the set of its elements
AcceptedAnchors(anchors) ==
    [present |-> TRUE, anchors |-> {anchors[n] : n \in 1..Len(anchors)}]

\* prepare_anchor_dict installing what it has built when it fails
prepare_anchor_dict_partial(vec, prev) ==
    LET r == AnchorsOfLines(vec, 1, << >>)
    IN [ok |-> r.ok, accepted |-> AcceptedAnchors(r.anchors)]

\* prepare_anchor_dict: the installed accepted_anchors (prev when it fails)
prepare_anchor_dict(vec, prev) ==
    LET r == AnchorsOfLines(vec, 1, << >>)
    IN [ok |-> r.ok, accepted |-> IF r.ok THEN AcceptedAnchors(r.anchors) ELSE prev]

IsAccepted(aa, leader) == leader \in aa.anchors

\* AnchorGate with the membership test left out
AnchorGateOpen(aa, leader) == TRUE

\* the test of extract_fafq_style_anchor_target_pairs on a collected leader
AnchorGate(aa, leader) == ~aa.present \/ IsAccepted(aa, leader)

(***************************************************************************)
(* The rediscover extractor, the one count_kmer_pairs runs.                *)
(***************************************************************************)
\* the loop test i <= read_len - (leader_len + gap_len + follower_len): the
\* three lengths are uint32_t, so the right side is computed unsigned and
\* for read_len < total_len wraps to 2^32 - (total_len - read_len), which
\* every i >= 0 is below
ScanContinues(i, read_len) ==
    IF read_len >= total_len THEN i <= read_len - total_len ELSE TRUE

\* LeaderMatches with the comparison left out
LeaderMatchesAny(anchor_kmer, leader) == TRUE

\* anchor_kmer.data_aligned_dir() != leader, negated: the candidate is the
\* collected leader
LeaderMatches(anchor_kmer, leader) == data_aligned_dir(anchor_kmer) = leader

\* the two inner j loops: n bytes from start on, inserted into k until a
\* byte is no base
RECURSIVE WindowAt(_, _, _, _, _, _)
WindowAt(bases, fill, start, j, n, k) ==
    IF j >= n THEN [valid |-> TRUE, kmer |-> k]
    ELSE LET sym == dna_code(MemAt(bases, fill, start + j))
         IN IF sym >= 4 THEN [valid |-> FALSE, kmer |-> k]
            ELSE WindowAt(bases, fill, start, j + 1, n, KmerInsert(k, sym))

\* the i loop over one read (the r-th of the CBC) for one collected leader;
\* the model stops where the modelled heap ends
RECURSIVE RescanRead(_, _, _, _, _, _)
RescanRead(leader, bases, r, fill, i, out) ==
    IF ~ScanContinues(i, strlen(bases)) \/ i > strlen(bases) + HeapSlack THEN out
    ELSE LET a == WindowAt(bases, fill, i, 0, leader_len, CKmer(leader_len))
             t == WindowAt(bases, fill, i + leader_len + gap_len, 0, follower_len,
                           CKmer(follower_len))
             hit == a.valid /\ LeaderMatches(a.kmer, leader) /\ t.valid
             e == [leader |-> leader, follower |-> data_aligned_dir(t.kmer),
                   read |-> r, pos |-> i]
         IN RescanRead(leader, bases, r, fill, i + 1,
                       IF hit THEN Append(out, e) ELSE out)

\* the loop over the reads of the CBC for one collected leader
RECURSIVE RescanReads(_, _, _, _)
RescanReads(leader, reads, r, fill) ==
    IF r > Len(reads) THEN << >>
    ELSE RescanRead(leader, reads[r], r, fill, 0, << >>)
         \o RescanReads(leader, reads, r + 1, fill)

\* the loop over the collected leaders
RECURSIVE RescanLeaders(_, _, _, _, _)
RescanLeaders(kmer_leaders, n, reads, aa, fill) ==
    IF n > Len(kmer_leaders) THEN << >>
    ELSE (IF AnchorGate(aa, kmer_leaders[n])
          THEN RescanReads(kmer_leaders[n], reads, 1, fill) ELSE << >>)
         \o RescanLeaders(kmer_leaders, n + 1, reads, aa, fill)

extract_fafq_style_anchor_target_pairs(reads, aa, fill) ==
    RescanLeaders(enumerate_kmer_leaders_for_cbc(reads), 1, reads, aa, fill)

\* the vector<leader_follower_t> an extractor leaves: the entries without
\* their history fields
PairsOf(entries) ==
    [n \in 1..Len(entries) |-> <<entries[n].leader, entries[n].follower>>]

(***************************************************************************)
(* Sort and gather.                                                        *)
(***************************************************************************)
\* operator< of leader_follower_t
PairLess(a, b) == a[1] < b[1] \/ (a[1] = b[1] /\ a[2] < b[2])

equal_lf(c, p) == c.leader = p[1] /\ c.follower = p[2]

\* a leader_follower_count_t made from a pair
NewCount(p) == [leader |-> p[1], follower |-> p[2], count |-> 1]

\* kmer_pairs left as it came
UnsortedPairs(kmer_pairs) == kmer_pairs

\* refresh::sort::pdqsort over the whole vector
SortedPairs(kmer_pairs) == SortSeq(kmer_pairs, PairLess)

\* a count left as it was
CountAfterRepeatSame(c) == c

\* kmer_pair_counts.back().count++
CountAfterRepeat(c) == c + 1

\* one turn of the loop of sort_and_gather_kmer_pairs_for_cbc, at the pair p
GatherStep(counts, p) ==
    IF equal_lf(counts[Len(counts)], p)
    THEN [counts EXCEPT ![Len(counts)].count = CountAfterRepeat(@)]
    ELSE Append(counts, NewCount(p))

\* the turns of that loop for the elements i..j, in the order of i (the
\* range is halved so that long vectors are folded without deep nesting;
\* counts holds the front element before the first turn, so is never empty)
RECURSIVE GatherRuns(_, _, _, _)
GatherRuns(sorted, i, j, counts) ==
    IF counts = << >> \/ i > j THEN counts
    ELSE IF i = j THEN GatherStep(counts, sorted[i])
    ELSE LET mid == (i + j) \div 2
         IN GatherRuns(sorted, mid + 1, j, GatherRuns(sorted, i, mid, counts))

sort_and_gather_kmer_pairs_for_cbc(kmer_pairs) ==
    LET sorted == SortedPairs(kmer_pairs)
    IN IF sorted = << >> THEN << >>
       ELSE GatherRuns(sorted, 2, Len(sorted), <<NewCount(sorted[1])>>)

(***************************************************************************)
(* Storing a CBC's counted pairs into the thread's shard buffers.          *)
(***************************************************************************)
\* refresh::MurMur64Hash: a fixed mixing function of the value alone
MurMur64Hash(x) ==
    LET h1 == x + (x \div 4)
        h2 == (h1 * 13) % 64
    IN (h2 + (h2 \div 8)) % 64

\* ShardOf hashing the follower in place of the leader
ShardOfFollower(x) == MurMur64Hash(x.follower) % no_splits

\* the shard a counted pair goes to
ShardOf(x) == MurMur64Hash(x.leader) % no_splits

\* the bkc_record_t emplaced for a counted pair of CBC cbc
RecordOf(cbc, x) ==
    [sample_id |-> sample_id, barcode |-> cbc, leader |-> x.leader,
     follower |-> x.follower, count |-> x.count]

\* the loop of store_kmer_pairs: every counted pair appended to its buffer
RECURSIVE StoreLoop(_, _, _, _)
StoreLoop(cbc, kmer_pair_counts, n, buffers) ==
    IF n > Len(kmer_pair_counts) THEN buffers
    ELSE LET x == kmer_pair_counts[n]
             h == ShardOf(x)
         IN StoreLoop(cbc, kmer_pair_counts, n + 1,
                      [buffers EXCEPT ![h] = Append(@, RecordOf(cbc, x))])

\* the local sum of store_kmer_pairs
RECURSIVE SumCounts(_)
SumCounts(kmer_pair_counts) ==
    IF kmer_pair_counts = << >> THEN 0
    ELSE Head(kmer_pair_counts).count + SumCounts(Tail(kmer_pair_counts))

(***************************************************************************)
(* The record packer (COMPACT_ENCODING): every record is five big-endian   *)
(* integers of fixed byte widths, written as one byte of shared-prefix     *)
(* length against the previous record of the block and then the rest.      *)
(***************************************************************************)
\* the least number of whole bytes that hold every value up to v
RECURSIVE BytesFor(_)
BytesFor(v) == IF v < 256 THEN 1 ELSE 1 + BytesFor(v \div 256)

RECURSIVE Pow256(_)
Pow256(n) == IF n = 0 THEN 1 ELSE 256 * Pow256(n - 1)

\* the field widths, fixed when the parameters are set
sample_id_size_in_bytes == BytesFor(sample_id)
barcode_size_in_bytes == BytesFor(MaxCbcs)
leader_size_in_bytes == BytesFor(Pow4(leader_len) - 1)
follower_size_in_bytes == BytesFor(Pow4(follower_len) - 1)
counter_size_in_bytes == BytesFor(max_count)

\* append_int_msb: the n low bytes of x, most significant first
append_int_msb(v, x, n) == v \o [k \in 1..n |-> (x \div Pow256(n - k)) % 256]

\* the number of leading bytes prev and curr share, counted from s on
RECURSIVE SharedPrefixLen(_, _, _)
SharedPrefixLen(prev, curr, s) ==
    IF s < Len(prev) /\ s < Len(curr) /\ prev[s + 1] = curr[s + 1]
    THEN SharedPrefixLen(prev, curr, s + 1) ELSE s

\* encode_shared_prefix: one byte of shared length, then the rest of curr
encode_shared_prefix(packed, prev, curr) ==
    LET s == SharedPrefixLen(prev, curr, 0)
    IN packed \o <<s>> \o SubSeq(curr, s + 1, Len(curr))

\* rec_curr of one record: the five append_int_msb calls
RecordBytes(x) ==
    append_int_msb(
        append_int_msb(
            append_int_msb(
                append_int_msb(
                    append_int_msb(<< >>, x.sample_id, sample_id_size_in_bytes),
                    x.barcode, barcode_size_in_bytes),
                x.leader, leader_size_in_bytes),
            x.follower, follower_size_in_bytes),
        x.count, counter_size_in_bytes)

\* the loop of pack_records from record n on
RECURSIVE PackLoop(_, _, _, _)
PackLoop(records, n, rec_prev, packed_buffer) ==
    IF n > Len(records) THEN packed_buffer
    ELSE LET rec_curr == RecordBytes(records[n])
         IN PackLoop(records, n + 1, rec_curr,
                     encode_shared_prefix(packed_buffer, rec_prev, rec_curr))

\* a previous record left over from an earlier call
StaleRecPrev == RecordBytes(RecordOf(1, [leader |-> 0, follower |-> 0, count |-> 1]))

\* the rec_prev a call of pack_records starts with
InitialRecPrev == << >>

\* pack_records: the packed block of a buffer
pack_records(records) == PackLoop(records, 1, InitialRecPrev, << >>)

(***************************************************************************)
(* State.                                                                  *)
(***************************************************************************)
VARIABLES
    global_cbc_dict,            \* the read index: for each CBC (by position in cbcs) its reads
    accepted_anchors,           \* the shared accepted-anchor set, NoAnchors when null
    id,                         \* the shared cursor of count_kmer_pairs
    total_no_kmer_pair_counts,  \* atomic counter
    sum_kmer_pair_counts,       \* atomic counter
    bkc_files,                  \* for each shard, the packed blocks its sink was handed, in order
    phase,                      \* "idle", "running" or "returned": where count_kmer_pairs is
    pc,                         \* for each worker thread, where it is
    curr_id,                    \* for each worker, its curr_id
    kmer_pair_counts,           \* for each worker, its counted triples
    record_buffers,             \* for each worker, for each shard, its record buffer
    shard_i,                    \* for each worker, the index of its flush loop
    claims,                     \* history: for each CBC, how often fetch_add handed it out
    processed,                  \* history: for each CBC, how often it was stored
    stored,                     \* history: for each shard, the bag of records put in a buffer
    flushes,                    \* history: number of threshold flushes made
    sent,                       \* history: for each shard, the buffers packed for its blocks
    sink_faulty,                \* environment: whether AddPacked can fail in this run
    sink_failed,                \* history: an AddPacked call has failed
    late_claim,                 \* history: a CBC was claimed after an AddPacked call failed
    p_pc,                       \* where ProcessReads is
    reader_pc,                  \* the reading thread: "idle", "running" or "done"
    loader_pc,                  \* the reads-loading thread: "idle", "running" or "done"
    sinks_open,                 \* bkc_files holds the sinks (init_bkc_files .. clear)
    p_result,                   \* what ProcessReads returned ("true", "false"), "none" before
    m_pc,                       \* where main is
    m_dict,                     \* the -d option: given, file can be opened, its strings
    m_prepared,                 \* history: what prepare_anchor_dict returned, "none" if not called
    m_status,                   \* exit status of main, -1 while it runs
    m_processing,               \* history: main got to CBC and read processing
    w_kmer,                     \* one k-mer window driven as in the scans
    w_fed,                      \* history: the bytes fed to it
    x_pc,                       \* the run of one extractor: "input", "pairs" or "counts"
    x_which,                    \* the extractor that ran
    x_entries,                  \* its pairs (with history fields)
    x_leaders,                  \* the collected leaders
    x_pairs,                    \* the vector kmer_pairs
    x_counts                    \* the counted triples of its pairs

vars == <<global_cbc_dict, accepted_anchors, id, total_no_kmer_pair_counts,
          sum_kmer_pair_counts, bkc_files, phase, pc, curr_id, kmer_pair_counts,
          record_buffers, shard_i, claims, processed, stored, flushes, sent,
          sink_faulty, sink_failed, late_claim,
          p_pc, reader_pc, loader_pc, sinks_open, p_result,
          m_pc, m_dict, m_prepared, m_status, m_processing,
          w_kmer, w_fed,
          x_pc, x_which, x_entries, x_leaders, x_pairs, x_counts>>

driver_vars == <<id, total_no_kmer_pair_counts, sum_kmer_pair_counts, bkc_files, phase,
                 pc, curr_id, kmer_pair_counts, record_buffers, shard_i, claims,
                 processed, stored, flushes, sent, sink_faulty, sink_failed, late_claim>>

process_vars == <<p_pc, reader_pc, loader_pc, sinks_open, p_result>>

main_vars == <<m_pc, m_dict, m_prepared, m_status, m_processing>>

window_vars == <<w_kmer, w_fed>>

extract_vars == <<x_pc, x_which, x_entries, x_leaders, x_pairs, x_counts>>

\* what no step of count_kmer_pairs touches
outside_driver == <<process_vars, main_vars, window_vars, extract_vars>>

Workers == 1..no_threads
Shards == 0..(no_splits - 1)

(***************************************************************************)
(* Inputs.                                                                 *)
(***************************************************************************)
\* the reads the read index of Spec is built from: one with a pair that
\* occurs twice, a leader with two followers, leaders of both shards and a
\* byte that is no base; and one shorter than total_len
SampleReads ==
    { <<"A", "c", "A", "A", "c", "A", "c", "N", "A">>,
      <<"A", "c">> }

\* the dictionaries given with -d: none, an empty file, one line
DictChoices ==
    { [given |-> FALSE, lines |-> << >>],
      [given |-> TRUE, lines |-> << >>],
      [given |-> TRUE, lines |-> << <<"A", "c">> >>] }

\* what the counters can hold when count_kmer_pairs is entered
StaleCount == 7

\* the values min_leader_count is drawn from
MinLeaderCounts == {1, 2}

\* sequences of at most n reads from pool
RECURSIVE ReadLists(_, _)
ReadLists(pool, n) ==
    IF n = 0 THEN {<< >>}
    ELSE {<< >>} \cup {<<r>> \o l : r \in pool, l \in ReadLists(pool, n - 1)}

\* read indexes of at most c CBCs holding at most n reads in all
RECURSIVE ReadIndexes(_, _)
ReadIndexes(c, n) ==
    IF c = 0 THEN {<< >>}
    ELSE {<< >>} \cup
         UNION { {<<l>> \o d : d \in ReadIndexes(c - 1, n - Len(l))} :
                 l \in ReadLists(SampleReads, n) }

\* the byte strings of length n
RECURSIVE ByteStrings(_)
ByteStrings(n) ==
    IF n = 0 THEN {<< >>}
    ELSE {<<b>> \o t : b \in Bytes, t \in ByteStrings(n - 1)}

\* the lists of at most n reads with at most b bytes in all
RECURSIVE BoundedReads(_, _)
BoundedReads(n, b) ==
    IF n = 0 THEN {<< >>}
    ELSE {<< >>} \cup
         UNION { {<<r>> \o l : l \in BoundedReads(n - 1, b - Len(r))} :
                 r \in UNION {ByteStrings(k) : k \in 0..b} }

\* parse_args with -d: accepted_anchors after prepare_anchor_dict
AnchorsOfDict(d) ==
    IF d.given THEN prepare_anchor_dict(d.lines, NoAnchors).accepted ELSE NoAnchors

\* a read in which one pair occurs often enough for its count to need
\* more than one byte
LongRead == [k \in 1..(total_len + 15) |-> "A"]

\* the reads the read index of SpecPack is built from
PackReads == { LongRead, <<"A", "c", "A", "A", "c", "A", "c", "N", "A">> }

\* read indexes of at most c CBCs, each with one read of PackReads
RECURSIVE PackIndexes(_)
PackIndexes(c) ==
    IF c = 0 THEN {<< >>}
    ELSE {<< >>} \cup {<< <<r>> >> \o d : r \in PackReads, d \in PackIndexes(c - 1)}

\* read indexes of at most c CBCs, each with one read of SampleReads
RECURSIVE OneReadIndexes(_)
OneReadIndexes(c) ==
    IF c = 0 THEN {<< >>}
    ELSE {<< >>} \cup {<< <<r>> >> \o d : r \in SampleReads, d \in OneReadIndexes(c - 1)}

\* reads of at least total_len and at most MaxBases bytes
FullReads == UNION {ByteStrings(k) : k \in total_len..MaxBases}

\* the reads a second read of a CBC is drawn from
SecondReads == { <<"A", "c", "A", "A">>, <<"c", "c", "c", "c">> }

\* the CBCs of SpecFull: no read, one read, or one read and a second one
FullCbcs ==
    {<< >>} \cup {<<r>> : r \in FullReads}
            \cup {<<r, q>> : r \in FullReads, q \in SecondReads}

\* the lengths of the strings of a dictionary file (load_strings reads
\* whitespace-separated strings, so none is empty)
EntryLens == 1..(leader_len + 1)

\* the strings of a dictionary file
DictEntries == UNION {ByteStrings(k) : k \in EntryLens}

\* the vectors load_strings can give: at most n strings
RECURSIVE DictVectors(_)
DictVectors(n) ==
    IF n = 0 THEN {<< >>}
    ELSE {<< >>} \cup {<<e>> \o v : e \in DictEntries, v \in DictVectors(n - 1)}

\* the -d options of SpecMain
DictOptions ==
    {[given |-> FALSE, openable |-> FALSE, lines |-> << >>],
     [given |-> TRUE, openable |-> FALSE, lines |-> << >>]}
    \cup {[given |-> TRUE, openable |-> TRUE, lines |-> v] : v \in DictVectors(MaxDictLines)}

\* the pairs SpecGather draws its vectors from
GatherPairs == {<<l, f>> : l \in 0..1, f \in 0..1}

\* the vectors of at most n pairs
RECURSIVE PairVectors(_)
PairVectors(n) ==
    IF n = 0 THEN {<< >>}
    ELSE {<< >>} \cup {<<p>> \o v : p \in GatherPairs, v \in PairVectors(n - 1)}

(***************************************************************************)
(* count_kmer_pairs: the driver and its worker threads.                    *)
(***************************************************************************)
\* CounterAtEntry with the assignment of 0 left out
CounterKept(old) == old

\* what the two counters are set to on entry
CounterAtEntry(old) == 0

\* FetchAddResult returning the value after the addition
FetchAddResultAfter(cursor) == cursor + 1

\* id.fetch_add(1): the value returned and the value left in id
FetchAddResult(cursor) == cursor

FetchAddStored(cursor) == cursor + 1

\* NeedsFlush with > in place of >=
NeedsFlushAbove(n) == n > max_records_in_buffer

\* the flush test of the worker loop on a buffer of n records
NeedsFlush(n) == n >= max_records_in_buffer

\* BufferAfterFlush with the clear() left out
BufferKept(buf) == buf

\* the buffer after a threshold flush (record_buffers[i].clear())
BufferAfterFlush(buf) == << >>

\* the sink a worker hands the block of its buffer i to
SinkOf(i) == i

\* total_no_kmer_pair_counts += kmer_pair_counts.size()
\* (an atomic read-modify-write)
AtomicAdd(counter, n) == counter + n

\* bkc_files[i]->AddPacked(packed_buffer): whether the sink took the block.
\* The call is a statement: nothing it reports is looked at.
AddPackedOutcomes(faulty) == IF faulty THEN {TRUE, FALSE} ELSE {TRUE}

\* the blocks of a sink after an AddPacked call
AddPacked(blocks, packed_buffer, ok) == IF ok THEN Append(blocks, packed_buffer) ELSE blocks

EmptyBuffers == [i \in Shards |-> << >>]

\* the bag of the elements of a sequence
RECURSIVE BagOfSeq(_)
BagOfSeq(q) == IF q = << >> THEN EmptyBag ELSE SetToBag({Head(q)}) (+) BagOfSeq(Tail(q))

DriverIdle ==
    /\ id = 0
    /\ bkc_files = [i \in Shards |-> << >>]
    /\ phase = "idle"
    /\ pc = [w \in Workers |-> "idle"]
    /\ curr_id = [w \in Workers |-> -1]
    /\ kmer_pair_counts = [w \in Workers |-> << >>]
    /\ record_buffers = [w \in Workers |-> EmptyBuffers]
    /\ shard_i = [w \in Workers |-> 0]
    /\ claims = [c \in 1..Len(global_cbc_dict) |-> 0]
    /\ processed = [c \in 1..Len(global_cbc_dict) |-> 0]
    /\ stored = [i \in Shards |-> EmptyBag]
    /\ flushes = 0
    /\ sent = [i \in Shards |-> << >>]
    /\ sink_failed = FALSE
    /\ late_claim = FALSE

\* ProcessReads is at its call of count_kmer_pairs
ProcessAtCount ==
    /\ p_pc = "count"
    /\ reader_pc = "done"
    /\ loader_pc = "done"
    /\ sinks_open = TRUE
    /\ p_result = "none"

ProcessOff ==
    /\ p_pc = "off"
    /\ reader_pc = "idle"
    /\ loader_pc = "idle"
    /\ sinks_open = FALSE
    /\ p_result = "none"

MainOff ==
    /\ m_pc = "off"
    /\ m_dict = [given |-> FALSE, openable |-> FALSE, lines |-> << >>]
    /\ m_prepared = "none"
    /\ m_status = -1
    /\ m_processing = FALSE

WindowOff ==
    /\ w_kmer = CKmer(leader_len)
    /\ w_fed = << >>

ExtractIdle ==
    /\ x_pc = "off"
    /\ x_which = "none"
    /\ x_entries = << >>
    /\ x_leaders = << >>
    /\ x_pairs = << >>
    /\ x_counts = << >>

Init ==
    /\ global_cbc_dict \in ReadIndexes(MaxCbcs, MaxIndexReads)
    /\ accepted_anchors \in {AnchorsOfDict(d) : d \in DictChoices}
    /\ \E stale \in {0, StaleCount} :
          /\ total_no_kmer_pair_counts = stale
          /\ sum_kmer_pair_counts = stale
    /\ sink_faulty = FALSE
    /\ DriverIdle
    /\ ProcessAtCount
    /\ MainOff
    /\ WindowOff
    /\ ExtractIdle

\* entry of count_kmer_pairs: the cursor and the counters are zeroed, the
\* threads are started with empty scratch and one empty buffer per shard
StartCounting ==
    /\ phase = "idle"
    /\ p_pc = "count"
    /\ phase' = "running"
    /\ id' = 0
    /\ total_no_kmer_pair_counts' = CounterAtEntry(total_no_kmer_pair_counts)
    /\ sum_kmer_pair_counts' = CounterAtEntry(sum_kmer_pair_counts)
    /\ pc' = [w \in Workers |-> "fetch"]
    /\ curr_id' = [w \in Workers |-> -1]
    /\ kmer_pair_counts' = [w \in Workers |-> << >>]
    /\ record_buffers' = [w \in Workers |-> EmptyBuffers]
    /\ shard_i' = [w \in Workers |-> 0]
    /\ UNCHANGED <<global_cbc_dict, accepted_anchors, bkc_files, claims, processed,
                   stored, flushes, sent, sink_faulty, sink_failed, late_claim>>
    /\ UNCHANGED outside_driver

\* curr_id = id.fetch_add(1); if (curr_id >= cbcs.size()) break;
Fetch(w) ==
    /\ phase = "running"
    /\ pc[w] = "fetch"
    /\ LET got == FetchAddResult(id)
       IN /\ curr_id' = [curr_id EXCEPT ![w] = got]
          /\ id' = FetchAddStored(id)
          /\ pc' = [pc EXCEPT ![w] = IF got >= Len(global_cbc_dict) THEN "final"
                                     ELSE "extract"]
          /\ claims' = IF got + 1 \in DOMAIN claims
                       THEN [claims EXCEPT ![got + 1] = @ + 1] ELSE claims
          /\ late_claim' = (late_claim \/ (sink_failed /\ got < Len(global_cbc_dict)))
    /\ shard_i' = [shard_i EXCEPT ![w] = 0]
    /\ UNCHANGED <<global_cbc_dict, accepted_anchors, total_no_kmer_pair_counts,
                   sum_kmer_pair_counts, bkc_files, phase, kmer_pair_counts,
                   record_buffers, processed, stored, flushes, sent, sink_faulty,
                   sink_failed>>
    /\ UNCHANGED outside_driver

\* extract_fafq_style_anchor_target_pairs and sort_and_gather_kmer_pairs_for_cbc
\* on cbcs[curr_id], then the first statement of store_kmer_pairs
ExtractAndCount(w) ==
    /\ phase = "running"
    /\ pc[w] = "extract"
    /\ \E fill \in Bytes :
          LET reads == global_cbc_dict[curr_id[w] + 1]
              kmer_pairs ==
                  PairsOf(extract_fafq_style_anchor_target_pairs(reads, accepted_anchors, fill))
              counts == sort_and_gather_kmer_pairs_for_cbc(kmer_pairs)
          IN /\ kmer_pair_counts' = [kmer_pair_counts EXCEPT ![w] = counts]
             /\ total_no_kmer_pair_counts' =
                    AtomicAdd(total_no_kmer_pair_counts, Len(counts))
    /\ pc' = [pc EXCEPT ![w] = "store"]
    /\ UNCHANGED <<global_cbc_dict, accepted_anchors, id, sum_kmer_pair_counts, bkc_files,
                   phase, curr_id, record_buffers, shard_i, claims, processed, stored,
                   flushes, sent, sink_faulty, sink_failed, late_claim>>
    /\ UNCHANGED outside_driver

\* the rest of store_kmer_pairs: the records pushed, the sum added, the
\* triples cleared
Store(w) ==
    /\ phase = "running"
    /\ pc[w] = "store"
    /\ LET cbc == curr_id[w] + 1
           counts == kmer_pair_counts[w]
       IN /\ record_buffers' =
                 [record_buffers EXCEPT ![w] = StoreLoop(cbc, counts, 1, @)]
          /\ sum_kmer_pair_counts' = AtomicAdd(sum_kmer_pair_counts, SumCounts(counts))
          /\ stored' = [i \in Shards |->
                           stored[i] (+) BagOfSeq(SelectSeq(
                               [n \in 1..Len(counts) |-> RecordOf(cbc, counts[n])],
                               LAMBDA r : ShardOf(r) = i))]
          /\ processed' = [processed EXCEPT ![cbc] = @ + 1]
    /\ kmer_pair_counts' = [kmer_pair_counts EXCEPT ![w] = << >>]
    /\ pc' = [pc EXCEPT ![w] = "flush"]
    /\ shard_i' = [shard_i EXCEPT ![w] = 0]
    /\ UNCHANGED <<global_cbc_dict, accepted_anchors, id, total_no_kmer_pair_counts,
                   bkc_files, phase, curr_id, claims, flushes, sent, sink_faulty,
                   sink_failed, late_claim>>
    /\ UNCHANGED outside_driver

\* one turn of the loop over the shards after a CBC: a buffer at the
\* threshold is packed, handed to its sink and cleared
FlushCheck(w) ==
    /\ phase = "running"
    /\ pc[w] = "flush"
    /\ LET i == shard_i[w]
           buf == record_buffers[w][i]
       IN /\ IF NeedsFlush(Len(buf))
             THEN \E ok \in AddPackedOutcomes(sink_faulty) :
                     /\ bkc_files' = [bkc_files EXCEPT ![SinkOf(i)] =
                                          AddPacked(@, pack_records(buf), ok)]
                     /\ sent' = [sent EXCEPT ![SinkOf(i)] = AddPacked(@, buf, ok)]
                     /\ sink_failed' = (sink_failed \/ ~ok)
                     /\ record_buffers' =
                            [record_buffers EXCEPT ![w][i] = BufferAfterFlush(buf)]
                     /\ flushes' = flushes + 1
             ELSE UNCHANGED <<bkc_files, sent, sink_failed, record_buffers, flushes>>
          /\ IF i + 1 < no_splits
             THEN /\ shard_i' = [shard_i EXCEPT ![w] = i + 1]
                  /\ pc' = pc
             ELSE /\ shard_i' = [shard_i EXCEPT ![w] = 0]
                  /\ pc' = [pc EXCEPT ![w] = "fetch"]
    /\ UNCHANGED <<global_cbc_dict, accepted_anchors, id, total_no_kmer_pair_counts,
                   sum_kmer_pair_counts, phase, curr_id, kmer_pair_counts, claims,
                   processed, stored, sink_faulty, late_claim>>
    /\ UNCHANGED outside_driver

\* one turn of the loop after the while: every buffer is packed and handed
\* to its sink
FinalFlush(w) ==
    /\ phase = "running"
    /\ pc[w] = "final"
    /\ LET i == shard_i[w]
           buf == record_buffers[w][i]
       IN /\ \E ok \in AddPackedOutcomes(sink_faulty) :
                /\ bkc_files' = [bkc_files EXCEPT ![SinkOf(i)] =
                                     AddPacked(@, pack_records(buf), ok)]
                /\ sent' = [sent EXCEPT ![SinkOf(i)] = AddPacked(@, buf, ok)]
                /\ sink_failed' = (sink_failed \/ ~ok)
          /\ IF i + 1 < no_splits
             THEN /\ shard_i' = [shard_i EXCEPT ![w] = i + 1]
                  /\ pc' = pc
             ELSE /\ shard_i' = shard_i
                  /\ pc' = [pc EXCEPT ![w] = "done"]
    /\ UNCHANGED <<global_cbc_dict, accepted_anchors, id, total_no_kmer_pair_counts,
                   sum_kmer_pair_counts, phase, curr_id, kmer_pair_counts, record_buffers,
                   claims, processed, stored, flushes, sink_faulty, late_claim>>
    /\ UNCHANGED outside_driver

\* JoinedThread never returning
JoinedThreadNever(thread_pc) == FALSE

\* JoinedThread returning without waiting
JoinedThreadNoWait(thread_pc) == TRUE

\* join_threads on a thread: it returns when the thread has ended
JoinedThread(thread_pc) == thread_pc = "done"

\* join_threads(threads): count_kmer_pairs returns when every worker has ended
Join ==
    /\ phase = "running"
    /\ \A w \in Workers : JoinedThread(pc[w])
    /\ phase' = "returned"
    /\ UNCHANGED <<global_cbc_dict, accepted_anchors, id, total_no_kmer_pair_counts,
                   sum_kmer_pair_counts, bkc_files, pc, curr_id, kmer_pair_counts,
                   record_buffers, shard_i, claims, processed, stored, flushes, sent,
                   sink_faulty, sink_failed, late_claim>>
    /\ UNCHANGED outside_driver

Next ==
    \/ StartCounting
    \/ \E w \in Workers : Fetch(w)
    \/ \E w \in Workers : ExtractAndCount(w)
    \/ \E w \in Workers : Store(w)
    \/ \E w \in Workers : FlushCheck(w)
    \/ \E w \in Workers : FinalFlush(w)
    \/ Join

Spec == Init /\ [][Next]_vars

\* count_kmer_pairs on at most MaxCbcs CBCs of one read each, drawn from PackReads
InitPack ==
    /\ global_cbc_dict \in PackIndexes(MaxCbcs)
    /\ accepted_anchors \in {AnchorsOfDict(d) : d \in DictChoices}
    /\ \E stale \in {0, StaleCount} :
          /\ total_no_kmer_pair_counts = stale
          /\ sum_kmer_pair_counts = stale
    /\ sink_faulty = FALSE
    /\ DriverIdle
    /\ ProcessAtCount
    /\ MainOff
    /\ WindowOff
    /\ ExtractIdle

SpecPack == InitPack /\ [][Next]_vars

\* count_kmer_pairs with its threads kept running and every call it makes
\* returning
InitLive ==
    /\ global_cbc_dict \in OneReadIndexes(MaxCbcs)
    /\ accepted_anchors \in {AnchorsOfDict(d) : d \in DictChoices}
    /\ \E stale \in {0, StaleCount} :
          /\ total_no_kmer_pair_counts = stale
          /\ sum_kmer_pair_counts = stale
    /\ sink_faulty = FALSE
    /\ DriverIdle
    /\ ProcessAtCount
    /\ MainOff
    /\ WindowOff
    /\ ExtractIdle

\* the steps of count_kmer_pairs and its workers other than the extraction
LightNext ==
    \/ StartCounting
    \/ \E w \in Workers : Fetch(w)
    \/ \E w \in Workers : Store(w)
    \/ \E w \in Workers : FlushCheck(w)
    \/ \E w \in Workers : FinalFlush(w)
    \/ Join

\* when ExtractAndCount(w) can be taken; the step always leaves this condition
ExtractEnabled(w) == phase = "running" /\ pc[w] = "extract"

\* a thread that can take a step is not left waiting for ever, and the
\* extraction of a CBC returns: weak fairness of LightNext, and weak
\* fairness of every ExtractAndCount(w) written with its enabling condition
Fairness ==
    /\ WF_vars(LightNext)
    /\ \A w \in Workers : []<>~ExtractEnabled(w)

SpecLive == InitLive /\ [][Next]_vars /\ Fairness

(***************************************************************************)
(* ProcessReads: the reads are loaded, then counted, then the sinks are    *)
(* released.                                                               *)
(***************************************************************************)
\* the read index after the reads-loading thread has added read r to CBC c
IndexWithRead(index, c, r) ==
    IF c \in 1..Len(index) THEN [index EXCEPT ![c] = Append(@, r)]
    ELSE Append(index, <<r>>)

RECURSIVE NoOfReads(_)
NoOfReads(index) == IF index = << >> THEN 0 ELSE Len(Head(index)) + NoOfReads(Tail(index))

\* ProcessReads up to the start of the reading and reads-loading threads
ProcessEntry ==
    /\ p_pc = "entry"
    /\ \E have_files \in BOOLEAN :
          IF no_threads = 0 \/ ~have_files
          THEN /\ p_result' = "false"
               /\ p_pc' = "returned"
               /\ UNCHANGED <<reader_pc, loader_pc, sinks_open>>
          ELSE /\ sinks_open' = TRUE
               /\ reader_pc' = "running"
               /\ loader_pc' = "running"
               /\ p_pc' = "join_reading"
               /\ p_result' = p_result
    /\ UNCHANGED <<global_cbc_dict, accepted_anchors>>
    /\ UNCHANGED <<driver_vars, main_vars, window_vars, extract_vars>>

\* the reading thread ends
ReaderEnd ==
    /\ reader_pc = "running"
    /\ reader_pc' = "done"
    /\ UNCHANGED <<global_cbc_dict, accepted_anchors, p_pc, loader_pc, sinks_open, p_result>>
    /\ UNCHANGED <<driver_vars, main_vars, window_vars, extract_vars>>

\* the reads-loading thread puts one read in the read index
LoadRead ==
    /\ loader_pc = "running"
    /\ NoOfReads(global_cbc_dict) < MaxIndexReads
    /\ \E r \in SampleReads :
       \E c \in 1..(IF Len(global_cbc_dict) < MaxCbcs THEN Len(global_cbc_dict) + 1
                    ELSE MaxCbcs) :
          /\ global_cbc_dict' = IndexWithRead(global_cbc_dict, c, r)
          /\ claims' = [k \in 1..Len(global_cbc_dict') |-> 0]
          /\ processed' = [k \in 1..Len(global_cbc_dict') |-> 0]
    /\ UNCHANGED <<accepted_anchors, id, total_no_kmer_pair_counts, sum_kmer_pair_counts,
                   bkc_files, phase, pc, curr_id, kmer_pair_counts, record_buffers,
                   shard_i, stored, flushes, sent, sink_faulty, sink_failed, late_claim>>
    /\ UNCHANGED <<process_vars, main_vars, window_vars, extract_vars>>

\* the reads-loading thread ends, the reading thread having ended
LoaderEnd ==
    /\ loader_pc = "running"
    /\ reader_pc = "done"
    /\ loader_pc' = "done"
    /\ UNCHANGED <<global_cbc_dict, accepted_anchors, p_pc, reader_pc, sinks_open, p_result>>
    /\ UNCHANGED <<driver_vars, main_vars, window_vars, extract_vars>>

\* join_threads(reading_threads)
JoinReading ==
    /\ p_pc = "join_reading"
    /\ JoinedThread(reader_pc)
    /\ p_pc' = "join_loading"
    /\ UNCHANGED <<global_cbc_dict, accepted_anchors, reader_pc, loader_pc, sinks_open,
                   p_result>>
    /\ UNCHANGED <<driver_vars, main_vars, window_vars, extract_vars>>

\* join_threads(reads_loading_threads); the next call is count_kmer_pairs
JoinLoading ==
    /\ p_pc = "join_loading"
    /\ JoinedThread(loader_pc)
    /\ p_pc' = "count"
    /\ UNCHANGED <<global_cbc_dict, accepted_anchors, reader_pc, loader_pc, sinks_open,
                   p_result>>
    /\ UNCHANGED <<driver_vars, main_vars, window_vars, extract_vars>>

\* count_kmer_pairs has returned: bkc_files.clear(); return true
ReleaseSinks ==
    /\ p_pc = "count"
    /\ phase = "returned"
    /\ sinks_open' = FALSE
    /\ p_result' = "true"
    /\ p_pc' = "returned"
    /\ UNCHANGED <<global_cbc_dict, accepted_anchors, reader_pc, loader_pc>>
    /\ UNCHANGED <<driver_vars, main_vars, window_vars, extract_vars>>

InitProcess ==
    /\ global_cbc_dict = << >>
    /\ accepted_anchors \in {AnchorsOfDict(d) : d \in DictChoices}
    /\ \E stale \in {0, StaleCount} :
          /\ total_no_kmer_pair_counts = stale
          /\ sum_kmer_pair_counts = stale
    /\ sink_faulty = FALSE
    /\ DriverIdle
    /\ p_pc = "entry"
    /\ reader_pc = "idle"
    /\ loader_pc = "idle"
    /\ sinks_open = FALSE
    /\ p_result = "none"
    /\ MainOff
    /\ WindowOff
    /\ ExtractIdle

NextProcess ==
    \/ ProcessEntry
    \/ ReaderEnd
    \/ LoadRead
    \/ LoaderEnd
    \/ JoinReading
    \/ JoinLoading
    \/ StartCounting
    \/ \E w \in Workers : Fetch(w)
    \/ \E w \in Workers : ExtractAndCount(w)
    \/ \E w \in Workers : Store(w)
    \/ \E w \in Workers : FlushCheck(w)
    \/ \E w \in Workers : FinalFlush(w)
    \/ Join
    \/ ReleaseSinks

SpecProcess == InitProcess /\ [][NextProcess]_vars

\* ProcessReads with sinks whose AddPacked can fail
InitSinkFail ==
    /\ global_cbc_dict = << >>
    /\ accepted_anchors = NoAnchors
    /\ total_no_kmer_pair_counts = 0
    /\ sum_kmer_pair_counts = 0
    /\ sink_faulty = TRUE
    /\ DriverIdle
    /\ p_pc = "entry"
    /\ reader_pc = "idle"
    /\ loader_pc = "idle"
    /\ sinks_open = FALSE
    /\ p_result = "none"
    /\ MainOff
    /\ WindowOff
    /\ ExtractIdle

SpecSinkFail == InitSinkFail /\ [][NextProcess]_vars

(***************************************************************************)
(* main and parse_args with the -d option.                                 *)
(***************************************************************************)
\* parse_args: the argument loop (args_ok: no argument was rejected), the
\* dictionary, then the validation of the other options (rest_ok)
parse_args(args_ok, dict, rest_ok, prev) ==
    IF ~args_ok THEN [ok |-> FALSE, accepted |-> prev, prepared |-> "none"]
    ELSE IF ~dict.given THEN [ok |-> rest_ok, accepted |-> prev, prepared |-> "none"]
    ELSE IF ~dict.openable THEN [ok |-> FALSE, accepted |-> prev, prepared |-> "none"]
    ELSE LET p == prepare_anchor_dict(dict.lines, prev)
         IN IF ~p.ok THEN [ok |-> FALSE, accepted |-> p.accepted, prepared |-> "false"]
            ELSE [ok |-> rest_ok, accepted |-> p.accepted, prepared |-> "true"]

\* main: CBarcodedCounter::init(); if (!parse_args(argc, argv)) { usage(); return 1; }
MainParseArgs ==
    /\ m_pc = "start"
    /\ \E args_ok \in BOOLEAN : \E rest_ok \in BOOLEAN :
          LET r == parse_args(args_ok, m_dict, rest_ok, accepted_anchors)
          IN /\ accepted_anchors' = r.accepted
             /\ m_prepared' = r.prepared
             /\ m_pc' = IF r.ok THEN "process" ELSE "exit"
             /\ m_status' = IF r.ok THEN m_status ELSE 1
    /\ UNCHANGED <<global_cbc_dict, m_dict, m_processing>>
    /\ UNCHANGED <<driver_vars, process_vars, window_vars, extract_vars>>

\* main after parse_args: SetParams, ProcessCBC, ProcessReads, return 0
MainProcess ==
    /\ m_pc = "process"
    /\ m_processing' = TRUE
    /\ m_status' = 0
    /\ m_pc' = "exit"
    /\ UNCHANGED <<global_cbc_dict, accepted_anchors, m_dict, m_prepared>>
    /\ UNCHANGED <<driver_vars, process_vars, window_vars, extract_vars>>

InitMain ==
    /\ global_cbc_dict = << >>
    /\ accepted_anchors = NoAnchors
    /\ total_no_kmer_pair_counts = 0
    /\ sum_kmer_pair_counts = 0
    /\ sink_faulty = FALSE
    /\ DriverIdle
    /\ ProcessOff
    /\ m_pc = "start"
    /\ m_dict \in DictOptions
    /\ m_prepared = "none"
    /\ m_status = -1
    /\ m_processing = FALSE
    /\ WindowOff
    /\ ExtractIdle

NextMain ==
    \/ MainParseArgs
    \/ MainProcess

SpecMain == InitMain /\ [][NextMain]_vars

(***************************************************************************)
(* One k-mer window fed byte by byte, as the scan loops feed theirs.       *)
(***************************************************************************)
\* one turn of a scan loop on one window
FeedByte ==
    /\ Len(w_fed) < MaxFed
    /\ \E b \in Bytes :
          /\ w_kmer' = FeedSymbol(w_kmer, dna_code(b))
          /\ w_fed' = Append(w_fed, b)
    /\ UNCHANGED <<global_cbc_dict, accepted_anchors>>
    /\ UNCHANGED <<driver_vars, process_vars, main_vars, extract_vars>>

InitWindow ==
    /\ global_cbc_dict = << >>
    /\ accepted_anchors = NoAnchors
    /\ total_no_kmer_pair_counts = 0
    /\ sum_kmer_pair_counts = 0
    /\ sink_faulty = FALSE
    /\ DriverIdle
    /\ ProcessOff
    /\ MainOff
    /\ \E len \in {leader_len, follower_len} : w_kmer = CKmer(len)
    /\ w_fed = << >>
    /\ ExtractIdle

NextWindow == FeedByte

SpecWindow == InitWindow /\ [][NextWindow]_vars

(***************************************************************************)
(* The leader window of a scan, fed byte by byte, beside the dictionary    *)
(* prepare_anchor_dict has installed.                                      *)
(***************************************************************************)
\* the bytes the leader window is fed: the four bases, in either case, and
\* a byte that is no base
LeaderBytes == {"A", "c", "G", "t", "N"}

\* at most this many bytes are fed to the leader window
MaxLeaderFed == 4

\* the lines dictionaries are made of, all of leader_len bases
LayoutLines == {<<"A", "C">>, <<"c", "a">>, <<"g", "T">>, <<"T", "G">>, <<"a", "a">>}

\* the dictionaries: no line, one line, two lines
LayoutDicts ==
    {<< >>} \cup {<<a>> : a \in LayoutLines}
            \cup {<<a, b>> : a \in LayoutLines, b \in LayoutLines}

\* one turn of the leader scan on the leader window
FeedLeaderByte ==
    /\ Len(w_fed) < MaxLeaderFed
    /\ \E b \in LeaderBytes :
          /\ w_kmer' = FeedSymbol(w_kmer, dna_code(b))
          /\ w_fed' = Append(w_fed, b)
    /\ UNCHANGED <<global_cbc_dict, accepted_anchors>>
    /\ UNCHANGED <<driver_vars, process_vars, main_vars, extract_vars>>

\* main has run prepare_anchor_dict on a dictionary whose lines all pass
InitLayout ==
    /\ global_cbc_dict = << >>
    /\ total_no_kmer_pair_counts = 0
    /\ sum_kmer_pair_counts = 0
    /\ sink_faulty = FALSE
    /\ DriverIdle
    /\ ProcessOff
    /\ m_pc = "process"
    /\ \E lines \in LayoutDicts :
          /\ m_dict = [given |-> TRUE, openable |-> TRUE, lines |-> lines]
          /\ accepted_anchors = prepare_anchor_dict(lines, NoAnchors).accepted
    /\ m_prepared = "true"
    /\ m_status = -1
    /\ m_processing = FALSE
    /\ w_kmer = CKmer(leader_len)
    /\ w_fed = << >>
    /\ ExtractIdle

NextLayout == FeedLeaderByte

SpecLayout == InitLayout /\ [][NextLayout]_vars

(***************************************************************************)
(* The extractors run on the reads of one CBC.                             *)
(***************************************************************************)
\* kmer_pairs when sort_and_gather_kmer_pairs_for_cbc returns
KmerPairsAfterGather(kmer_pairs) == << >>

InitExtract ==
    /\ \E reads \in BoundedReads(MaxIndexReads, MaxBases) : global_cbc_dict = <<reads>>
    /\ accepted_anchors \in {AnchorsOfDict(d) : d \in DictChoices}
    /\ total_no_kmer_pair_counts = 0
    /\ sum_kmer_pair_counts = 0
    /\ sink_faulty = FALSE
    /\ DriverIdle
    /\ ProcessOff
    /\ MainOff
    /\ WindowOff
    /\ x_pc = "input"
    /\ x_which = "none"
    /\ x_entries = << >>
    /\ x_leaders = << >>
    /\ x_pairs = << >>
    /\ x_counts = << >>

\* enumerate_kmer_pairs_for_cbc; valid_leaders is never filled
RunStreaming ==
    /\ x_pc = "input"
    /\ \E mlc \in MinLeaderCounts :
          /\ x_entries' = enumerate_kmer_pairs_for_cbc(global_cbc_dict[1], mlc, {})
          /\ x_which' = IF mlc <= 1 THEN "streaming" ELSE "streaming_filtered"
    /\ x_pairs' = PairsOf(x_entries')
    /\ x_pc' = "pairs"
    /\ UNCHANGED <<global_cbc_dict, accepted_anchors, x_leaders, x_counts>>
    /\ UNCHANGED <<driver_vars, process_vars, main_vars, window_vars>>

\* enumerate_kmer_leaders_for_cbc
RunLeaders ==
    /\ x_pc = "input"
    /\ x_leaders' = enumerate_kmer_leaders_for_cbc(global_cbc_dict[1])
    /\ x_which' = "leaders"
    /\ x_pc' = "leaders"
    /\ UNCHANGED <<global_cbc_dict, accepted_anchors, x_entries, x_pairs, x_counts>>
    /\ UNCHANGED <<driver_vars, process_vars, main_vars, window_vars>>

\* extract_fafq_style_anchor_target_pairs
RunRediscover ==
    /\ x_pc = "input"
    /\ \E fill \in Bytes :
          x_entries' = extract_fafq_style_anchor_target_pairs(
                           global_cbc_dict[1], accepted_anchors, fill)
    /\ x_pairs' = PairsOf(x_entries')
    /\ x_leaders' = enumerate_kmer_leaders_for_cbc(global_cbc_dict[1])
    /\ x_which' = "rediscover"
    /\ x_pc' = "pairs"
    /\ UNCHANGED <<global_cbc_dict, accepted_anchors, x_counts>>
    /\ UNCHANGED <<driver_vars, process_vars, main_vars, window_vars>>

\* sort_and_gather_kmer_pairs_for_cbc on the vector kmer_pairs
RunGather ==
    /\ x_pc = "pairs"
    /\ x_counts' = sort_and_gather_kmer_pairs_for_cbc(x_pairs)
    /\ x_pairs' = KmerPairsAfterGather(x_pairs)
    /\ x_pc' = "counts"
    /\ UNCHANGED <<global_cbc_dict, accepted_anchors, x_which, x_entries, x_leaders>>
    /\ UNCHANGED <<driver_vars, process_vars, main_vars, window_vars>>

NextExtract ==
    \/ RunStreaming
    \/ RunLeaders
    \/ RunRediscover
    \/ RunGather

SpecExtract == InitExtract /\ [][NextExtract]_vars

\* enumerate_kmer_pairs_from_read on one read of at most MaxReadLen bytes
\* one CBC whose reads are all at least total_len long
InitFull ==
    /\ \E reads \in FullCbcs : global_cbc_dict = <<reads>>
    /\ accepted_anchors \in {AnchorsOfDict(d) : d \in DictChoices}
    /\ total_no_kmer_pair_counts = 0
    /\ sum_kmer_pair_counts = 0
    /\ sink_faulty = FALSE
    /\ DriverIdle
    /\ ProcessOff
    /\ MainOff
    /\ WindowOff
    /\ x_pc = "input"
    /\ x_which = "none"
    /\ x_entries = << >>
    /\ x_leaders = << >>
    /\ x_pairs = << >>
    /\ x_counts = << >>

NextFull ==
    \/ RunStreaming
    \/ RunRediscover

SpecFull == InitFull /\ [][NextFull]_vars

InitStream ==
    /\ \E read \in UNION {ByteStrings(k) : k \in 0..MaxReadLen} :
          global_cbc_dict = << <<read>> >>
    /\ accepted_anchors = NoAnchors
    /\ total_no_kmer_pair_counts = 0
    /\ sum_kmer_pair_counts = 0
    /\ sink_faulty = FALSE
    /\ DriverIdle
    /\ ProcessOff
    /\ MainOff
    /\ WindowOff
    /\ x_pc = "input"
    /\ x_which = "none"
    /\ x_entries = << >>
    /\ x_leaders = << >>
    /\ x_pairs = << >>
    /\ x_counts = << >>

NextStream == RunStreaming

SpecStream == InitStream /\ [][NextStream]_vars

\* sort_and_gather_kmer_pairs_for_cbc on a vector of at most MaxPairs pairs;
\* x_entries keeps the vector it was given
InitGather ==
    /\ global_cbc_dict = << >>
    /\ accepted_anchors = NoAnchors
    /\ total_no_kmer_pair_counts = 0
    /\ sum_kmer_pair_counts = 0
    /\ sink_faulty = FALSE
    /\ DriverIdle
    /\ ProcessOff
    /\ MainOff
    /\ WindowOff
    /\ x_pc = "pairs"
    /\ x_which = "vector"
    /\ \E v \in PairVectors(MaxPairs) :
          /\ x_pairs = v
          /\ x_entries = [n \in 1..Len(v) |->
                             [leader |-> v[n][1], follower |-> v[n][2],
                              read |-> 0, pos |-> 0]]
    /\ x_leaders = << >>
    /\ x_counts = << >>

NextGather == RunGather

SpecGather == InitGather /\ [][NextGather]_vars

(***************************************************************************)
(* Definitions the properties are stated with.                             *)
(***************************************************************************)
BaseLetters == {"A", "C", "G", "T", "a", "c", "g", "t"}

BaseValue(c) ==
    CASE c \in {"A", "a"} -> 0 [] c \in {"C", "c"} -> 1
      [] c \in {"G", "g"} -> 2 [] c \in {"T", "t"} -> 3

\* the n bases of read from position p (from 0) on lie in the read and are bases
ValidRange(read, p, n) ==
    /\ p >= 0
    /\ p + n <= Len(read)
    /\ \A j \in 1..n : read[p + j] \in BaseLetters

\* 2 bits per base, the first base most significant
RECURSIVE EncodeRange(_, _, _)
EncodeRange(read, p, n) ==
    IF n = 0 THEN 0
    ELSE 4 * EncodeRange(read, p, n - 1) + BaseValue(read[p + n])

\* the (read, position) extractions of the reads of one CBC
Extractions(reads) ==
    { rp \in UNION { {<<r, p>> : p \in 0..Len(reads[r])} : r \in 1..Len(reads) } :
        /\ ValidRange(reads[rp[1]], rp[2], leader_len)
        /\ ValidRange(reads[rp[1]], rp[2] + leader_len + gap_len, follower_len) }

LeaderAt(reads, rp) == EncodeRange(reads[rp[1]], rp[2], leader_len)

FollowerAt(reads, rp) ==
    EncodeRange(reads[rp[1]], rp[2] + leader_len + gap_len, follower_len)

\* how often the pair (l, f) is extracted from the reads of one CBC
Multiplicity(reads, l, f) ==
    Cardinality({rp \in Extractions(reads) :
                    LeaderAt(reads, rp) = l /\ FollowerAt(reads, rp) = f})

LeaderValues == 0..(Pow4(leader_len) - 1)
FollowerValues == 0..(Pow4(follower_len) - 1)

RECURSIVE Flatten(_)
Flatten(blocks) == IF blocks = << >> THEN << >> ELSE Head(blocks) \o Flatten(Tail(blocks))

\* the records of the buffers packed for sink i, in order
SinkRecords(i) == Flatten(sent[i])

SeqToSet(q) == {q[n] : n \in 1..Len(q)}

\* the records at shard i: in its sink or in a worker's buffer for it
RecordsAt(i) ==
    SeqToSet(SinkRecords(i)) \cup UNION {SeqToSet(record_buffers[w][i]) : w \in Workers}

AllRecords == UNION {RecordsAt(i) : i \in Shards}

RECURSIVE SumOfCounts(_)
SumOfCounts(q) == IF q = << >> THEN 0 ELSE Head(q).count + SumOfCounts(Tail(q))

\* the records of all sinks, sink 0 first
AllSinkRecords == Flatten([n \in 1..no_splits |-> SinkRecords(n - 1)])

\* the bag of all records put in a buffer, shards 0..i
RECURSIVE StoredUpTo(_)
StoredUpTo(i) == IF i < 0 THEN EmptyBag ELSE stored[i] (+) StoredUpTo(i - 1)

RECURSIVE SumOfBagCounts(_)
SumOfBagCounts(B) ==
    IF BagToSet(B) = {} THEN 0
    ELSE LET r == CHOOSE x \in BagToSet(B) : TRUE
         IN r.count * CopiesIn(r, B)
            + SumOfBagCounts([x \in BagToSet(B) \ {r} |-> B[x]])

Leaders(c) == {LeaderAt(global_cbc_dict[c], rp) : rp \in Extractions(global_cbc_dict[c])}

(***************************************************************************)
(* C1.  For every CBC processed by count_kmer_pairs, each distinct         *)
(* (leader, follower) pair (with an accepted leader) yields exactly one    *)
(* record, whose count is the number of (read, position) extractions of    *)
(* the pair among the CBC's reads.  Stated on the records the sinks hold   *)
(* when count_kmer_pairs has returned.                                     *)
(***************************************************************************)
C1_OneRecordPerPairWithItsMultiplicity ==
    phase = "returned" =>
        \A c \in 1..Len(global_cbc_dict) : \A l \in LeaderValues : \A f \in FollowerValues :
            LET m == Multiplicity(global_cbc_dict[c], l, f)
                recs == SelectSeq(AllSinkRecords,
                                  LAMBDA r : r.barcode = c /\ r.leader = l /\ r.follower = f)
            IN IF m > 0 /\ (accepted_anchors.present => l \in accepted_anchors.anchors)
               THEN Len(recs) = 1 /\ recs[1].count = m
               ELSE Len(recs) = 0

(***************************************************************************)
(* C2.  Every pair an extractor emits for a read corresponds to a position *)
(* p of that read at which the leader_len bases from p and the             *)
(* follower_len bases from p + leader_len + gap_len are all bases, and the *)
(* emitted leader and follower are the encodings of these two ranges.      *)
(***************************************************************************)
C2_EmittedPairsComeFromValidPositions ==
    x_pc \in {"pairs", "counts"} =>
        \A n \in 1..Len(x_entries) :
            LET e == x_entries[n]
                read == global_cbc_dict[1][e.read]
            IN /\ ValidRange(read, e.pos, leader_len)
               /\ ValidRange(read, e.pos + leader_len + gap_len, follower_len)
               /\ e.leader = EncodeRange(read, e.pos, leader_len)
               /\ e.follower = EncodeRange(read, e.pos + leader_len + gap_len, follower_len)

(***************************************************************************)
(* C3.  With an accepted-anchor set configured every record has a leader   *)
(* of the set, so an empty set gives no record; with no set configured no  *)
(* leader is rejected: every leader extracted from a stored CBC has a      *)
(* record.                                                                 *)
(***************************************************************************)
C3_RecordsHaveAcceptedLeaders ==
    /\ accepted_anchors.present =>
          \A r \in AllRecords : r.leader \in accepted_anchors.anchors
    /\ (accepted_anchors.present /\ accepted_anchors.anchors = {}) => AllRecords = {}
    /\ ~accepted_anchors.present =>
          \A c \in 1..Len(global_cbc_dict) :
              processed[c] > 0 =>
                  \A l \in Leaders(c) : \E r \in AllRecords : r.barcode = c /\ r.leader = l

\* a set is configured, a CBC with a leader outside it was stored, and a
\* record of that CBC exists
C3_Witness ==
    /\ accepted_anchors.present
    /\ \E c \in 1..Len(global_cbc_dict) :
          /\ processed[c] > 0
          /\ \E l \in Leaders(c) : l \notin accepted_anchors.anchors
          /\ \E r \in AllRecords : r.barcode = c

(***************************************************************************)
(* C4.  No record has a count above max_count, and a pair extracted more   *)
(* than max_count times has the count max_count.                           *)
(***************************************************************************)
C4_CountsClampedToMaxCount ==
    \A r \in AllRecords :
        /\ r.count <= max_count
        /\ Multiplicity(global_cbc_dict[r.barcode], r.leader, r.follower) > max_count
              => r.count = max_count

(***************************************************************************)
(* C5.  Every record is at the shard hash(leader) mod no_splits, in its    *)
(* buffer or in its sink, so records with the same leader are at the same  *)
(* shard whatever their CBC, and the shard is in 0..no_splits-1.           *)
(***************************************************************************)
C5_LeaderDecidesShard ==
    /\ \A i \in Shards : \A r \in RecordsAt(i) : i = MurMur64Hash(r.leader) % no_splits
    /\ \A i \in Shards : \A j \in Shards :
          \A r1 \in RecordsAt(i) : \A r2 \in RecordsAt(j) :
              r1.leader = r2.leader => i = j
    /\ DOMAIN bkc_files = 0..(no_splits - 1)
    /\ \A w \in Workers : DOMAIN record_buffers[w] = 0..(no_splits - 1)

\* count_kmer_pairs has returned, a sink holds records of two CBCs with the
\* same leader, and the other shards hold records too
C5_Witness ==
    /\ phase = "returned"
    /\ \E i \in Shards :
          \E r1 \in SeqToSet(SinkRecords(i)) : \E r2 \in SeqToSet(SinkRecords(i)) :
              r1.leader = r2.leader /\ r1.barcode # r2.barcode
    /\ \A i \in Shards : SinkRecords(i) # << >>

(***************************************************************************)
(* C6.  As claimed: in every state every per-shard buffer of every worker  *)
(* holds at most max_records_in_buffer records.                            *)
(***************************************************************************)
C6_BuffersNeverAboveThreshold ==
    \A w \in Workers : \A i \in Shards :
        Len(record_buffers[w][i]) <= max_records_in_buffer

(***************************************************************************)
(* C6, amended.  Whenever a worker is outside the store and flush steps of *)
(* a CBC (it is about to claim, or extracts, or has left the loop) each of *)
(* its buffers holds fewer than max_records_in_buffer records, and in the  *)
(* flush loop so does every buffer the loop has passed: a buffer that      *)
(* store_kmer_pairs filled to the threshold or beyond is flushed whole     *)
(* before the next CBC is claimed.                                         *)
(***************************************************************************)
C6_BuffersBelowThresholdBetweenCbcs ==
    \A w \in Workers :
        /\ pc[w] \in {"fetch", "extract", "store", "final", "done"} =>
              \A i \in Shards : Len(record_buffers[w][i]) < max_records_in_buffer
        /\ pc[w] = "flush" =>
              \A i \in Shards :
                  i < shard_i[w] => Len(record_buffers[w][i]) < max_records_in_buffer

\* a worker is about to claim a CBC with a buffer one record short of the
\* threshold, after a threshold flush of a buffer that had gone beyond it
C6_Witness ==
    /\ flushes > 0
    /\ \E i \in Shards : \E n \in 1..Len(sent[i]) :
          Len(sent[i][n]) > max_records_in_buffer
    /\ \E w \in Workers :
          /\ pc[w] = "fetch"
          /\ \E i \in Shards : Len(record_buffers[w][i]) = max_records_in_buffer - 1

(***************************************************************************)
(* C7.  Each CBC of the read index is handed out by the cursor to exactly  *)
(* one worker and is stored exactly once: never twice, no two workers hold *)
(* the same CBC, and when count_kmer_pairs has returned none was skipped.  *)
(***************************************************************************)
C7_EachCbcClaimedAndStoredOnce ==
    /\ \A c \in 1..Len(global_cbc_dict) : claims[c] <= 1 /\ processed[c] <= claims[c]
    /\ \A w1 \in Workers : \A w2 \in Workers :
          (w1 # w2 /\ pc[w1] \in {"extract", "store", "flush"}
                   /\ pc[w2] \in {"extract", "store", "flush"})
              => curr_id[w1] # curr_id[w2]
    /\ \A w \in Workers :
          pc[w] \in {"extract", "store", "flush"} =>
              curr_id[w] \in 0..(Len(global_cbc_dict) - 1)
    /\ phase = "returned" =>
          \A c \in 1..Len(global_cbc_dict) : claims[c] = 1 /\ processed[c] = 1

\* two workers are storing two different CBCs at the same time
C7_Witness ==
    \E w1 \in Workers : \E w2 \in Workers :
        /\ w1 # w2
        /\ pc[w1] = "store" /\ pc[w2] = "store"
        /\ curr_id[w1] # curr_id[w2]

(***************************************************************************)
(* C8.  When count_kmer_pairs has returned, the records sink i was handed  *)
(* are, as a bag, exactly the records the workers put in their buffers for *)
(* shard i; and at no time was a sink handed a record twice or a record of *)
(* another shard.                                                          *)
(***************************************************************************)
C8_EveryBufferedRecordDeliveredOnce ==
    /\ \A i \in Shards : BagOfSeq(SinkRecords(i)) \sqsubseteq stored[i]
    /\ phase = "returned" => \A i \in Shards : BagOfSeq(SinkRecords(i)) = stored[i]

\* count_kmer_pairs has returned after a threshold flush, and a sink holds
\* records in two blocks
C8_Witness ==
    /\ phase = "returned"
    /\ flushes > 0
    /\ \E i \in Shards : \E n1 \in 1..Len(sent[i]) : \E n2 \in 1..Len(sent[i]) :
          n1 # n2 /\ sent[i][n1] # << >> /\ sent[i][n2] # << >>

(***************************************************************************)
(* C9.  When count_kmer_pairs has returned, total_no_kmer_pair_counts is   *)
(* the number of records stored and sum_kmer_pair_counts the sum of their  *)
(* counts, whatever the counters held on entry.                            *)
(***************************************************************************)
C9_CountersMatchStoredRecords ==
    phase = "returned" =>
        /\ total_no_kmer_pair_counts = BagCardinality(StoredUpTo(no_splits - 1))
        /\ sum_kmer_pair_counts = SumOfBagCounts(StoredUpTo(no_splits - 1))
        /\ total_no_kmer_pair_counts = Len(AllSinkRecords)
        /\ sum_kmer_pair_counts = SumOfCounts(AllSinkRecords)

\* count_kmer_pairs has returned with records of two CBCs counted, one of
\* them with a count above 1
C9_Witness ==
    /\ phase = "returned"
    /\ \A c \in 1..Len(global_cbc_dict) : processed[c] = 1
    /\ \E r1 \in AllRecords : \E r2 \in AllRecords : r1.barcode # r2.barcode
    /\ sum_kmer_pair_counts > total_no_kmer_pair_counts
    /\ total_no_kmer_pair_counts >= 3

(***************************************************************************)
(* C10.  A read shorter than leader_len + gap_len + follower_len           *)
(* contributes no pair, whatever other reads the CBC has, and a read of    *)
(* exactly that length only a pair at position 0; for the streaming        *)
(* extractor and for the extractor count_kmer_pairs runs.                  *)
(***************************************************************************)
C10_ShortReadsContributeNothing ==
    x_pc \in {"pairs", "counts"} =>
        \A n \in 1..Len(x_entries) :
            LET e == x_entries[n]
                read == global_cbc_dict[1][e.read]
            IN /\ Len(read) >= total_len
               /\ Len(read) = total_len => e.pos = 0

(***************************************************************************)
(* C11.  prepare_anchor_dict returns false and leaves accepted_anchors as  *)
(* it was as soon as an entry of the dictionary has a length other than    *)
(* leader_len or holds a character that is no base; it returns true and    *)
(* installs the set of the entries' encodings only when every entry        *)
(* passes; when it fails main exits with status 1 before any CBC or read   *)
(* processing.                                                             *)
(***************************************************************************)
EntryPasses(s) ==
    /\ Len(s) = leader_len
    /\ \A j \in 1..Len(s) : s[j] \in BaseLetters

AllEntriesPass(lines) == \A n \in 1..Len(lines) : EntryPasses(lines[n])

EncodingsOf(lines) == {EncodeRange(lines[n], 0, leader_len) : n \in 1..Len(lines)}

RecordLen ==
    sample_id_size_in_bytes + barcode_size_in_bytes + leader_size_in_bytes
        + follower_size_in_bytes + counter_size_in_bytes

Min2(a, b) == IF a < b THEN a ELSE b

\* the byte strings of the records of block from position pos on (a decoder
\* takes what there is when the block asks for more than there is)
RECURSIVE DecodeFrom(_, _, _)
DecodeFrom(block, pos, prev) ==
    IF pos > Len(block) THEN << >>
    ELSE LET s == Min2(block[pos], Len(prev))
             rest == IF s < RecordLen THEN RecordLen - s ELSE 0
             curr == SubSeq(prev, 1, s)
                        \o SubSeq(block, pos + 1, Min2(pos + rest, Len(block)))
         IN <<curr>> \o DecodeFrom(block, pos + 1 + rest, curr)

\* a block decoded on its own
DecodeBlock(block) == DecodeFrom(block, 1, << >>)

\* the big-endian integer in the n bytes of b after the first skip ones
RECURSIVE IntAt(_, _, _)
IntAt(b, skip, n) ==
    IF n = 0 THEN 0 ELSE 256 * IntAt(b, skip, n - 1) + b[skip + n]

FieldsOf(b) ==
    LET o1 == sample_id_size_in_bytes
        o2 == o1 + barcode_size_in_bytes
        o3 == o2 + leader_size_in_bytes
        o4 == o3 + follower_size_in_bytes
    IN [sample_id |-> IntAt(b, 0, sample_id_size_in_bytes),
        barcode |-> IntAt(b, o1, barcode_size_in_bytes),
        leader |-> IntAt(b, o2, leader_size_in_bytes),
        follower |-> IntAt(b, o3, follower_size_in_bytes),
        count |-> IntAt(b, o4, counter_size_in_bytes)]

DecodedRecords(block) ==
    LET d == DecodeBlock(block) IN [n \in 1..Len(d) |-> FieldsOf(d[n])]

(***************************************************************************)
(* C12.  Decoding a packed block gives back the field values of the        *)
(* records count_kmer_pairs handed to pack_records: no field, the count    *)
(* included, is truncated by its byte width.                               *)
(***************************************************************************)
C12_BlocksDecodeToTheRecordsPacked ==
    \A i \in Shards :
        /\ Len(bkc_files[i]) = Len(sent[i])
        /\ \A n \in 1..Len(bkc_files[i]) :
               DecodedRecords(bkc_files[i][n]) = sent[i][n]

(***************************************************************************)
(* C13.  Every block handed to a sink decodes on its own: its first record *)
(* is written with shared-prefix length 0 and all its bytes, and the       *)
(* block, decoded from an empty previous record, gives the bytes of the    *)
(* records of the buffer it was packed from, whatever was packed before.   *)
(***************************************************************************)
C13_EveryBlockDecodesOnItsOwn ==
    \A i \in Shards :
        /\ Len(bkc_files[i]) = Len(sent[i])
        /\ \A n \in 1..Len(bkc_files[i]) :
               LET block == bkc_files[i][n]
                   records == sent[i][n]
               IN /\ DecodeBlock(block) = [k \in 1..Len(records) |-> RecordBytes(records[k])]
                  /\ records = << >> => block = << >>
                  /\ records # << >> =>
                         /\ block[1] = 0
                         /\ SubSeq(block, 2, 1 + RecordLen) = RecordBytes(records[1])

\* a sink holds two blocks that are not empty, the first record of the
\* second sharing a prefix with the last record of the first
C13_Witness ==
    \E i \in Shards :
        \E n \in 1..Len(sent[i]) : \E m \in 1..Len(sent[i]) :
            /\ n < m
            /\ sent[i][n] # << >>
            /\ sent[i][m] # << >>
            /\ SharedPrefixLen(RecordBytes(sent[i][n][Len(sent[i][n])]),
                               RecordBytes(sent[i][m][1]), 0) > 0
            /\ Len(bkc_files[i][m]) > 1 + RecordLen

(***************************************************************************)
(* C14.  ProcessReads keeps its phases in order: count_kmer_pairs and its  *)
(* workers run only when the reading thread and the reads-loading thread   *)
(* have ended and been joined, so the read index is not written while it   *)
(* is counted; the sinks are there while the workers run and are released  *)
(* only when every worker has been joined.                                 *)
(***************************************************************************)
C14_LoadThenCountThenRelease ==
    /\ phase # "idle" =>
           /\ reader_pc = "done"
           /\ loader_pc = "done"
           /\ p_pc \in {"count", "returned"}
    /\ phase = "running" => sinks_open
    /\ (\E w \in Workers : pc[w] \notin {"idle", "done"}) => phase = "running"
    /\ (p_pc = "returned" /\ p_result = "true") =>
           /\ ~sinks_open
           /\ phase = "returned"
           /\ \A w \in Workers : pc[w] = "done"
    /\ (~sinks_open /\ p_pc # "entry") => p_pc = "returned"

\* ProcessReads has returned true after two CBCs were loaded and counted
\* and their records handed to the sinks
C14_Witness ==
    /\ p_result = "true"
    /\ ~sinks_open
    /\ Len(global_cbc_dict) = 2
    /\ \A c \in 1..Len(global_cbc_dict) : processed[c] = 1
    /\ total_no_kmer_pair_counts > 0

(***************************************************************************)
(* C15.  When a sink fails to accept a packed block, no worker claims a    *)
(* further CBC and ProcessReads does not return true.                      *)
(***************************************************************************)
C15_SinkFailureStopsWorkersAndIsReported ==
    sink_failed => (~late_claim /\ p_result # "true")

(***************************************************************************)
(* C16.  Within every shard the records of one CBC stand in strictly       *)
(* ascending (leader, follower) order: in every worker's buffer for the    *)
(* shard, and in the blocks of the shard's sink as a decoder reads them.   *)
(***************************************************************************)
\* the records of the blocks of sink i as decoded, in order
DecodedSink(i) == Flatten([n \in 1..Len(bkc_files[i]) |-> DecodedRecords(bkc_files[i][n])])

RecordBefore(a, b) ==
    a.leader < b.leader \/ (a.leader = b.leader /\ a.follower < b.follower)

\* in q every record stands before the later records of its CBC
AscendingPerCbc(q) ==
    \A a \in 1..Len(q) : \A b \in 1..Len(q) :
        (a < b /\ q[a].barcode = q[b].barcode) => RecordBefore(q[a], q[b])

C16_RecordsOfACbcAscendInEveryShard ==
    \A i \in Shards :
        /\ AscendingPerCbc(DecodedSink(i))
        /\ \A w \in Workers : AscendingPerCbc(record_buffers[w][i])

\* a block of a sink holds two records of one CBC with the same leader and
\* a record of that CBC with another leader
C16_Witness ==
    \E i \in Shards : \E n \in 1..Len(bkc_files[i]) :
        LET q == DecodedRecords(bkc_files[i][n])
        IN \E a \in 1..Len(q) : \E b \in 1..Len(q) : \E c \in 1..Len(q) :
              /\ q[a].barcode = q[b].barcode
              /\ q[a].barcode = q[c].barcode
              /\ q[a].leader = q[b].leader
              /\ q[a].follower < q[b].follower
              /\ q[c].leader # q[a].leader

(***************************************************************************)
(* C17.  With no leader filter active enumerate_kmer_pairs_from_read       *)
(* appends, for a read of length L, exactly one pair for each position p   *)
(* of 0..L-(leader_len+gap_len+follower_len) whose leader range and        *)
(* follower range hold only bases, in increasing order of p, and nothing   *)
(* else; a byte that is no base suppresses only the positions whose        *)
(* windows cover it.                                                       *)
(***************************************************************************)
\* the entries expected for the positions p .. of the read
RECURSIVE ExpectedFrom(_, _)
ExpectedFrom(read, p) ==
    IF p + total_len > Len(read) THEN << >>
    ELSE (IF /\ ValidRange(read, p, leader_len)
             /\ ValidRange(read, p + leader_len + gap_len, follower_len)
          THEN << [leader |-> EncodeRange(read, p, leader_len),
                   follower |-> EncodeRange(read, p + leader_len + gap_len, follower_len),
                   read |-> 1, pos |-> p] >>
          ELSE << >>)
         \o ExpectedFrom(read, p + 1)

C17_OnePairPerValidPositionInOrder ==
    (x_pc = "pairs" /\ x_which = "streaming") =>
        /\ x_entries = ExpectedFrom(global_cbc_dict[1][1], 0)
        /\ x_pairs = PairsOf(x_entries)

\* a pair was appended at a position whose gap holds a byte that is no
\* base, and another at a later position, the positions between them
\* giving none
C17_Witness ==
    /\ x_pc = "pairs"
    /\ x_which = "streaming"
    /\ LET read == global_cbc_dict[1][1]
       IN \E a \in 1..Len(x_entries) : \E b \in 1..Len(x_entries) :
             /\ b = a + 1
             /\ \E g \in 1..gap_len :
                    read[x_entries[a].pos + leader_len + g] \notin BaseLetters
             /\ x_entries[b].pos > x_entries[a].pos + 1

(***************************************************************************)
(* C18.  A k-mer window driven as in the scans (insert on a base, Reset on *)
(* any other byte) is full exactly when the last k bytes fed to it were    *)
(* all bases; when full it holds those k bases, so it stays full on each   *)
(* further base with the oldest one shifted out; a byte that is no base    *)
(* empties it, and k new bases are needed before it is full again.         *)
(***************************************************************************)
C18_WindowFullIffLastKBytesAreBases ==
    LET k == w_kmer.len
        n == Len(w_fed)
    IN /\ is_full(w_kmer) <=> ValidRange(w_fed, n - k, k)
       /\ is_full(w_kmer) => data_aligned_dir(w_kmer) = EncodeRange(w_fed, n - k, k)
       /\ (n > 0 /\ w_fed[n] \notin BaseLetters) => w_kmer.size = 0
       /\ \A m \in 0..k : (m <= n /\ ValidRange(w_fed, n - m, m)
                                /\ (m < n => w_fed[n - m] \notin BaseLetters)
                                /\ m < k)
                             => w_kmer.size = m

\* a window of more than one base was full, was emptied by a byte that is
\* no base and is full again, having stayed full over one more base
C18_Witness ==
    LET k == w_kmer.len
        n == Len(w_fed)
    IN /\ k > 1
       /\ is_full(w_kmer)
       /\ ValidRange(w_fed, n - k - 1, k + 1)
       /\ \E i \in 1..n :
              /\ w_fed[i] \notin BaseLetters
              /\ ValidRange(w_fed, i - 1 - k, k)

(***************************************************************************)
(* C19.  sort_and_gather_kmer_pairs_for_cbc turns a vector of pairs into   *)
(* one triple per distinct pair, in strictly ascending order, each count   *)
(* the multiplicity of its pair in the vector, so that the counts sum to   *)
(* the length of the vector; an empty vector gives no triple, and the      *)
(* vector is empty afterwards.                                             *)
(***************************************************************************)
\* how often the pair p stands in the vector v
TimesIn(v, p) == Cardinality({n \in 1..Len(v) : v[n] = p})

C19_GatherCountsEachDistinctPairOnce ==
    x_pc = "counts" =>
        LET input == PairsOf(x_entries)
        IN /\ \A n \in 1..Len(x_counts) :
                  /\ x_counts[n].count =
                         TimesIn(input, <<x_counts[n].leader, x_counts[n].follower>>)
                  /\ x_counts[n].count >= 1
                  /\ n > 1 => RecordBefore(x_counts[n - 1], x_counts[n])
           /\ \A m \in 1..Len(input) :
                  \E n \in 1..Len(x_counts) : equal_lf(x_counts[n], input[m])
           /\ SumOfCounts(x_counts) = Len(input)
           /\ input = << >> => x_counts = << >>
           /\ x_pairs = << >>

\* a vector in which a pair stands three times, not next to each other,
\* between other pairs has been gathered
C19_Witness ==
    /\ x_pc = "counts"
    /\ Len(x_counts) >= 2
    /\ LET input == PairsOf(x_entries)
       IN \E a \in 1..Len(input) : \E b \in 1..Len(input) :
             /\ a + 1 < b
             /\ input[a] = input[b]
             /\ input[a + 1] # input[a]
             /\ PairLess(input[a + 1], input[a])
             /\ TimesIn(input, input[a]) = 3

(***************************************************************************)
(* C20.  extract_fafq_style_anchor_target_pairs matches each position      *)
(* holding an accepted leader with a valid follower once per occurrence    *)
(* of that leader in the collected leaders of the CBC: for an accepted     *)
(* leader collected m times, a pair (leader, follower) occurring at n      *)
(* positions is appended m * n times.                                      *)
(***************************************************************************)
\* how often the leader l was collected
TimesCollected(l) == Cardinality({k \in 1..Len(x_leaders) : x_leaders[k] = l})

C20_PairAppendedOncePerCollectedLeaderAndPosition ==
    (x_pc = "pairs" /\ x_which = "rediscover") =>
        \A l \in LeaderValues : \A f \in FollowerValues :
            TimesIn(x_pairs, <<l, f>>) =
                IF AnchorGate(accepted_anchors, l)
                THEN TimesCollected(l) * Multiplicity(global_cbc_dict[1], l, f)
                ELSE 0

(***************************************************************************)
(* C21.  For a CBC whose reads are all at least leader_len + gap_len +     *)
(* follower_len long, the set of distinct pairs of the rediscover          *)
(* extractor is the set of pairs of the streaming scan whose leader is     *)
(* accepted; every collected leader is the encoding from scratch of the    *)
(* bases at a position of a read.                                          *)
(***************************************************************************)
\* the pairs of v with an accepted leader, as a set
AcceptedPairSet(v) == {p \in SeqToSet(v) : AnchorGate(accepted_anchors, p[1])}

\* the pairs of the streaming scan over the CBC, no leader filter active
StreamingPairs(reads) == PairsOf(enumerate_kmer_pairs_for_cbc(reads, 1, {}))

C21_RediscoverGivesTheStreamingPairsOfAcceptedLeaders ==
    LET reads == global_cbc_dict[1]
    IN /\ (x_pc = "pairs" /\ x_which = "rediscover") =>
              /\ SeqToSet(x_pairs) = AcceptedPairSet(StreamingPairs(reads))
              /\ \A k \in 1..Len(x_leaders) :
                     \E rp \in Extractions(reads) : LeaderAt(reads, rp) = x_leaders[k]
       /\ (x_pc = "pairs" /\ x_which = "streaming") =>
              \A fill \in Bytes :
                  AcceptedPairSet(x_pairs) =
                      SeqToSet(PairsOf(extract_fafq_style_anchor_target_pairs(
                                           reads, accepted_anchors, fill)))

\* the rediscover extractor ran on two reads with a dictionary that accepts
\* one of their leaders and rejects another, and found a pair more than once
C21_Witness ==
    /\ x_pc = "pairs"
    /\ x_which = "rediscover"
    /\ Len(global_cbc_dict[1]) = 2
    /\ accepted_anchors.present
    /\ \E k \in 1..Len(x_leaders) : ~AnchorGate(accepted_anchors, x_leaders[k])
    /\ Len(x_pairs) > Cardinality(SeqToSet(x_pairs))
    /\ Cardinality(SeqToSet(x_pairs)) >= 2

(***************************************************************************)
(* C22.  The streaming extractor gates what it appends on the accepted-    *)
(* anchor set: when a set is configured, every pair it appends has a       *)
(* leader the set contains.                                                *)
(***************************************************************************)
C22_StreamingAppendsOnlyAcceptedLeaders ==
    (x_pc = "pairs" /\ x_which \in {"streaming", "streaming_filtered"}) =>
        \A n \in 1..Len(x_pairs) : AnchorGate(accepted_anchors, x_pairs[n][1])

C24_NoBlockFromAnEmptyBuffer ==
    \A i \in Shards : \A n \in 1..Len(sent[i]) :
        /\ sent[i][n] # << >>
        /\ bkc_files[i][n] # << >>

(***************************************************************************)
(* C25.  The multiset of records delivered to each sink is determined by   *)
(* the inputs (read index, anchor set, parameters) alone: whatever the     *)
(* interleaving of the workers, when count_kmer_pairs has returned sink i  *)
(* holds, as a bag, the records the reads of each CBC give for shard i.    *)
(***************************************************************************)
\* the counted pairs the reads of CBC c give, every byte behind the end
\* of a read being a terminator
CountsOfCbc(c) ==
    sort_and_gather_kmer_pairs_for_cbc(
        PairsOf(extract_fafq_style_anchor_target_pairs(
                    global_cbc_dict[c], accepted_anchors, NUL)))

\* the records the inputs give for shard i
RecordsOfInputs(i) ==
    {r \in UNION { {RecordOf(c, CountsOfCbc(c)[n]) : n \in 1..Len(CountsOfCbc(c))} :
                   c \in 1..Len(global_cbc_dict) } : ShardOf(r) = i}

C25_SinkBagsDeterminedByInputs ==
    phase = "returned" =>
        \A i \in Shards : BagOfSeq(SinkRecords(i)) = SetToBag(RecordsOfInputs(i))

(***************************************************************************)
(* C26.  Every record with barcode c is derived from the reads of CBC c    *)
(* alone: its pair stands in those reads and its count is what those       *)
(* reads give; and a worker's triples are empty whenever it starts a CBC.  *)
(***************************************************************************)
\* how often the reads hold the leader l at a position that gives a pair
TimesLeaderStands(reads, l) ==
    Cardinality({rp \in Extractions(reads) : LeaderAt(reads, rp) = l})

C26_RecordsDerivedFromTheirOwnCbc ==
    /\ \A w \in Workers : pc[w] \in {"fetch", "extract"} => kmer_pair_counts[w] = << >>
    /\ \A r \in AllRecords :
           /\ r.barcode \in 1..Len(global_cbc_dict)
           /\ LET reads == global_cbc_dict[r.barcode]
              IN r.count = TimesLeaderStands(reads, r.leader)
                               * Multiplicity(reads, r.leader, r.follower)

(***************************************************************************)
(* C27.  In extract_fafq_style_anchor_target_pairs every index at which a  *)
(* byte of a read is read, i + j for the leader and                        *)
(* i + leader_len + gap_len + j for the follower, is below the length of   *)
(* that read, reads shorter than leader_len + gap_len + follower_len       *)
(* included.  Stated on the positions i at which a pair was appended: all  *)
(* leader_len + follower_len bytes of both ranges were read there.         *)
(***************************************************************************)
C27_RescanReadsOnlyInsideTheRead ==
    (x_pc = "pairs" /\ x_which = "rediscover") =>
        \A n \in 1..Len(x_entries) :
            LET i == x_entries[n].pos
                read_len == Len(global_cbc_dict[1][x_entries[n].read])
            IN /\ \A j \in 0..(leader_len - 1) : i + j < read_len
               /\ \A j \in 0..(follower_len - 1) : i + leader_len + gap_len + j < read_len

(***************************************************************************)
(* C28.  All records of one CBC that belong to one shard are delivered     *)
(* inside a single packed block: of the blocks handed to a sink at most    *)
(* one holds records of a given CBC, a CBC whose records were handed over  *)
(* has none left in a buffer of a worker still in its loop, and inside a   *)
(* block the records of a CBC stand next to one another, with no record of *)
(* another CBC between them.                                               *)
(***************************************************************************)
HoldsCbc(block, c) == \E k \in 1..Len(block) : block[k].barcode = c

CbcContiguous(block) ==
    \A k1 \in 1..Len(block) : \A k2 \in k1..Len(block) :
        block[k1].barcode = block[k2].barcode =>
            \A k \in k1..k2 : block[k].barcode = block[k1].barcode

C28_RecordsOfACbcInOneBlockPerShard ==
    \A i \in Shards :
        /\ \A n \in 1..Len(sent[i]) : CbcContiguous(sent[i][n])
        /\ \A c \in 1..Len(global_cbc_dict) :
              /\ \A n1 \in 1..Len(sent[i]) : \A n2 \in 1..Len(sent[i]) :
                    (HoldsCbc(sent[i][n1], c) /\ HoldsCbc(sent[i][n2], c)) => n1 = n2
              /\ \A w \in Workers :
                    (pc[w] \in {"fetch", "extract", "store", "flush"}
                         /\ HoldsCbc(record_buffers[w][i], c))
                        => \A n \in 1..Len(sent[i]) : ~HoldsCbc(sent[i][n], c)

\* count_kmer_pairs has returned; a sink was handed a block with two records
\* of one CBC after a threshold flush and another block with records of
\* another CBC
C28_Witness ==
    /\ phase = "returned"
    /\ flushes > 0
    /\ \E i \in Shards : \E n1 \in 1..Len(sent[i]) : \E n2 \in 1..Len(sent[i]) :
          /\ n1 # n2
          /\ \E k1 \in 1..Len(sent[i][n1]) : \E k2 \in 1..Len(sent[i][n1]) :
                k1 # k2 /\ sent[i][n1][k1].barcode = sent[i][n1][k2].barcode
          /\ \E c \in 1..Len(global_cbc_dict) :
                HoldsCbc(sent[i][n2], c) /\ ~HoldsCbc(sent[i][n1], c)

(***************************************************************************)
(* C29.  The leader encoding passed to the accepted-anchor membership test *)
(* has the layout of the dictionary entries built by prepare_anchor_dict:  *)
(* 2 bits per base, A=0 C=1 G=2 T=3, first base most significant, in the   *)
(* low 2*leader_len bits.  So a full leader window is accepted exactly     *)
(* when the bases it holds spell, case aside, a line of the dictionary.    *)
(***************************************************************************)
UpperCase(c) ==
    CASE c = "a" -> "A" [] c = "c" -> "C" [] c = "g" -> "G" [] c = "t" -> "T"
      [] OTHER -> c

\* the value of the bases s[j..] in the layout: base j weighs 4^(Len(s) - j)
RECURSIVE LayoutValue(_, _)
LayoutValue(s, j) ==
    IF j > Len(s) THEN 0
    ELSE BaseValue(s[j]) * Pow4(Len(s) - j) + LayoutValue(s, j + 1)

\* the last leader_len bytes fed spell the line
Spells(fed, line) ==
    /\ Len(fed) >= leader_len
    /\ \A j \in 1..leader_len :
          UpperCase(fed[Len(fed) - leader_len + j]) = UpperCase(line[j])

C29_LeaderAndDictionaryShareTheLayout ==
    /\ accepted_anchors.present
    /\ accepted_anchors.anchors =
          {LayoutValue(m_dict.lines[n], 1) : n \in 1..Len(m_dict.lines)}
    /\ \A a \in accepted_anchors.anchors : a \in 0..(Pow4(leader_len) - 1)
    /\ is_full(w_kmer) =>
          /\ data_aligned_dir(w_kmer)
                 = LayoutValue(SubSeq(w_fed, Len(w_fed) - leader_len + 1, Len(w_fed)), 1)
          /\ IsAccepted(accepted_anchors, data_aligned_dir(w_kmer))
                 <=> \E n \in 1..Len(m_dict.lines) : Spells(w_fed, m_dict.lines[n])

\* a full leader window is accepted: it spells, in the other case, the
\* second line of the dictionary, whose two bases differ; the leader that
\* stood one byte earlier was rejected
C29_Witness ==
    /\ is_full(w_kmer)
    /\ Len(m_dict.lines) = 2
    /\ Len(w_fed) > leader_len
    /\ Spells(w_fed, m_dict.lines[2])
    /\ ~Spells(w_fed, m_dict.lines[1])
    /\ m_dict.lines[2][1] # m_dict.lines[2][leader_len]
    /\ w_fed[Len(w_fed)] # m_dict.lines[2][leader_len]
    /\ IsAccepted(accepted_anchors, data_aligned_dir(w_kmer))
    /\ LET earlier == SubSeq(w_fed, 1, Len(w_fed) - 1)
       IN /\ \A j \in 1..Len(earlier) : earlier[j] \in BaseLetters
          /\ \A n \in 1..Len(m_dict.lines) : ~Spells(earlier, m_dict.lines[n])

====
